---- MODULE Spec2Model ----
(***************************************************************************)
(* Fee-history oracle of plugin/evm (package gasprice, factory.go):        *)
(* processBlock, processPercentiles, resolveBlockRange and FeeHistory with *)
(* its pool of block-fetching goroutines.                                  *)
(*                                                                         *)
(* Representation.  A *big.Int is <<>> (nil) or <<v>>.  A nil slice is the *)
(* empty sequence: every non-nil slice FeeHistory returns is non-empty.    *)
(* float64 percentiles are whole numbers, so uint64(float64(g) * p / 100)  *)
(* is (g * p) \div 100; gasUsedRatio is kept as the pair it is the         *)
(* quotient of.  An error is a record [kind, at]; NoErr is the nil error.  *)
(***************************************************************************)
EXTENDS Integers, Sequences, FiniteSets, Bags, TLC

\* ------------------------------------------------------------------ bounds
MaxHead == 4        \* resolver inputs: head ranges over 0..MaxHead
MaxHistory == 3     \* resolver inputs: maxBlockHistory ranges over 1..MaxHistory
MaxCount == 5       \* resolver inputs: blocks ranges over 1..MaxCount
MaxTxs == 3         \* percentile inputs: transactions per block

\* ---------------------------------------------------------------- constants
maxBlockFetchers == 4

PendingBlockNumber == -2
LatestBlockNumber == -1
AcceptedBlockNumber == -3
EarliestBlockNumber == 0

\* rpc.BlockNumber.IsAccepted: every selector below EarliestBlockNumber
IsAccepted(bn) == bn < EarliestBlockNumber /\ bn >= AcceptedBlockNumber

NoErr == [kind |-> "nil", at |-> 0]
errInvalidPercentile == [kind |-> "errInvalidPercentile", at |-> 0]
errRequestBeyondHead == [kind |-> "errRequestBeyondHead", at |-> 0]
errBeyondHistoricalLimit == [kind |-> "errBeyondHistoricalLimit", at |-> 0]

NilBig == <<>>
Big(v) == <<v>>
Big0 == 0

Min(a, b) == IF a < b THEN a ELSE b
Max(a, b) == IF a > b THEN a ELSE b

RECURSIVE SumGas(_)
SumGas(s) == IF s = <<>> THEN 0 ELSE s[1].gasUsed + SumGas(Tail(s))

\* ------------------------------------------------------------- processBlock
\* tx.EffectiveGasTip(baseFee): min(gasTipCap, gasFeeCap - baseFee); the error
\* of a fee cap below the base fee is dropped by processBlock (line 130).
EffectiveGasTip(tx, baseFee) == Min(tx.gasTipCap, tx.gasFeeCap - baseFee[1])

\* mutant: the order of the sort turned around
LessReversed(a, b) == b.reward < a.reward

\* sortGasAndReward.Less
Less(a, b) == a.reward < b.reward

IsSorted(s) == \A i \in 1..Len(s) - 1 : ~Less(s[i + 1], s[i])

Perms(n) == {f \in [1..n -> 1..n] : \A i, j \in 1..n : f[i] = f[j] => i = j}

\* sort.Sort is not stable: any arrangement in which no element is Less than
\* its predecessor is a possible result.
SortOutcomes(s) ==
    {[i \in 1..Len(s) |-> s[f[i]]] : f \in
        {g \in Perms(Len(s)) : IsSorted([i \in 1..Len(s) |-> s[g[i]]])}}

\* mutant: the sort of line 133 left out
UnsortedOutcomes(s) == {s}

SorterOutcomes(s) == SortOutcomes(s)

\* lines 123-125 and 128-132: the base fee defaulted to zero, one pair per
\* transaction with the gas of the receipt at the same index
slimBaseFee(block) == IF block.baseFee = NilBig THEN Big(0) ELSE block.baseFee

sorterOf(block, receipts) ==
    [i \in 1..Len(block.txs) |->
        [gasUsed |-> receipts[i].gasUsed,
         reward |-> EffectiveGasTip(block.txs[i], slimBaseFee(block))]]

\* every slimBlock processBlock can return for one block and its receipts
processBlockOutcomes(block, receipts) ==
    {[GasUsed |-> block.gasUsed, GasLimit |-> block.gasLimit,
      BaseFee |-> slimBaseFee(block), Txs |-> txs] :
        txs \in SorterOutcomes(sorterOf(block, receipts))}

\* sort.Sort is deterministic: the same block always gives the same slimBlock
processBlock(block, receipts) ==
    CHOOSE sb \in processBlockOutcomes(block, receipts) : TRUE

\* ------------------------------------------------------- processPercentiles
\* mutant: the threshold taken from the gas limit of the block
thresholdFromGasLimit(sb, p) == (sb.GasLimit * p) \div 100

\* line 164
thresholdGasUsed(sb, p) == (sb.GasUsed * p) \div 100

\* lines 165-168: the inner loop, from cursor txIndex (0-based) with sumGasUsed
RECURSIVE advance(_, _, _, _)
advance(txs, txIndex, sumGasUsed, threshold) ==
    IF sumGasUsed < threshold /\ txIndex < Len(txs) - 1
    THEN advance(txs, txIndex + 1, sumGasUsed + txs[txIndex + 2].gasUsed, threshold)
    ELSE [txIndex |-> txIndex, sumGasUsed |-> sumGasUsed]

\* lines 163-170: the outer loop over percentiles i..len, the cursor carried on
RECURSIVE rewardsFrom(_, _, _, _, _)
rewardsFrom(sb, percentiles, i, txIndex, sumGasUsed) ==
    IF i > Len(percentiles) THEN <<>>
    ELSE LET a == advance(sb.Txs, txIndex, sumGasUsed,
                          thresholdGasUsed(sb, percentiles[i]))
         IN  <<Big(sb.Txs[a.txIndex + 1].reward)>>
                \o rewardsFrom(sb, percentiles, i + 1, a.txIndex, a.sumGasUsed)

processPercentiles(sb, percentiles) ==
    LET base == [baseFee |-> sb.BaseFee,
                 gasUsedRatio |-> <<sb.GasUsed, sb.GasLimit>>]
    IN  IF Len(percentiles) = 0
        THEN base @@ [reward |-> <<>>]
        ELSE IF Len(sb.Txs) = 0
        THEN base @@ [reward |-> [i \in 1..Len(percentiles) |-> Big(0)]]
        ELSE base @@ [reward |->
                        rewardsFrom(sb, percentiles, 1, 0, sb.Txs[1].gasUsed)]

\* -------------------------------------------------------- resolveBlockRange
\* mutant: the check against the head of lines 197-200 left out
rangeErrorNoHead(lastAcceptedBlock, maxQueryDepth, lastBlock) ==
    IF lastAcceptedBlock > maxQueryDepth /\ lastAcceptedBlock - maxQueryDepth > lastBlock
    THEN errBeyondHistoricalLimit
    ELSE NoErr

\* lines 193-200, for a lastBlock that is not a selector
rangeError(lastAcceptedBlock, maxQueryDepth, lastBlock) ==
    IF lastAcceptedBlock > maxQueryDepth /\ lastAcceptedBlock - maxQueryDepth > lastBlock
    THEN errBeyondHistoricalLimit
    ELSE IF lastBlock > lastAcceptedBlock
    THEN errRequestBeyondHead
    ELSE NoErr

\* mutant: the clamp at genesis left out
clampGenesisNone(lastBlock, blocks) == blocks

\* lines 202-204
clampGenesis(lastBlock, blocks) ==
    IF blocks > lastBlock + 1 THEN lastBlock + 1 ELSE blocks

\* mutant: the truncation to maxBlockHistory left out
clampDepthNone(lastAcceptedBlock, maxQueryDepth, lastBlock, blocks) == blocks

\* lines 206-210
clampDepth(lastAcceptedBlock, maxQueryDepth, lastBlock, blocks) ==
    LET oldestQueriedIndex == lastBlock - blocks + 1
        queryDepth == lastAcceptedBlock - oldestQueriedIndex
    IN  IF queryDepth > maxQueryDepth
        THEN blocks - (queryDepth - maxQueryDepth)
        ELSE blocks

\* mutant: the pending block counted as one of the blocks to fetch
pendingBlocksKept(lastBlock, blocks) == blocks

\* lines 180 and 183
pendingBlocks(lastBlock, blocks) ==
    IF lastBlock = PendingBlockNumber THEN blocks - 1 ELSE blocks

\* lines 178-215; head is oracle.backend.LastAcceptedBlock().NumberU64()
resolveBlockRange(head, maxBlockHistory, lastBlock0, blocks0) ==
    LET pending == lastBlock0 = PendingBlockNumber
        lastBlock1 == IF pending THEN LatestBlockNumber ELSE lastBlock0
        blocks1 == pendingBlocks(lastBlock0, blocks0)
        lastAcceptedBlock == head
        maxQueryDepth == maxBlockHistory - 1
        err == IF IsAccepted(lastBlock1) THEN NoErr
               ELSE rangeError(lastAcceptedBlock, maxQueryDepth, lastBlock1)
        lastBlock2 == IF IsAccepted(lastBlock1) THEN lastAcceptedBlock ELSE lastBlock1
        blocks2 == clampGenesis(lastBlock2, blocks1)
        blocks3 == clampDepth(lastAcceptedBlock, maxQueryDepth, lastBlock2, blocks2)
    IN  IF blocks1 = 0 THEN [lastBlock |-> 0, blocks |-> 0, err |-> NoErr]
        ELSE IF err # NoErr THEN [lastBlock |-> 0, blocks |-> 0, err |-> err]
        ELSE [lastBlock |-> lastBlock2, blocks |-> blocks3, err |-> NoErr]

\* ------------------------------------------------------------------- state
VARIABLES
    rsv,            \* one application of resolveBlockRange: its inputs and its result
    pct,            \* one application of processBlock and processPercentiles
    head,           \* backend: number of the last accepted block
    chain,          \* backend: what it answers for each block number
    maxBlockHistory,        \* oracle.maxBlockHistory
    maxCallBlockHistory,    \* oracle.maxCallBlockHistory
    historyCache,   \* oracle.historyCache, most recently used entry first
    requests,       \* client: the scripts it may follow, the arguments of each call
    callsLeft,      \* client: FeeHistory calls it still makes
    callpc,         \* per call: "idle", "drain" (line 297) or "returned"
    args,           \* per call: blocks, unresolvedLastBlock, rewardPercentiles
    range,          \* per call: lastBlock, oldestBlock, blocks as resolved
    next,           \* per call: the shared cursor of line 253
    results,        \* per call: the channel of line 254
    fetcher,        \* per call: the goroutines of lines 256-289
    acc,            \* per call: reward, baseFee, gasUsedRatio, firstMissing, blocks left
    ret,            \* per call: what FeeHistory returned
    ops             \* per call: how often each backend, cache and channel operation ran

probeVars == <<rsv, pct>>
backendVars == <<head, chain, maxBlockHistory, maxCallBlockHistory>>
callVars == <<requests, callsLeft, callpc, args, range, next, results, fetcher, acc, ret, ops>>
oracleVars == <<backendVars, historyCache, callVars>>
vars == <<probeVars, oracleVars>>

\* the probes at rest
RsvIdle == [pc |-> "idle", head |-> 0, maxBlockHistory |-> 1, lastBlock |-> 0,
            blocks |-> 1, out |-> [lastBlock |-> 0, blocks |-> 0, err |-> NoErr]]

PctIdle == [pc |-> "idle", block |-> <<>>, receipts |-> <<>>, percentiles |-> <<>>,
            sb |-> <<>>, out |-> <<>>]

\* ------------------------------------------------------------------ backend
\* The chain the backend serves.  Block n has n % 3 transactions, listed by
\* descending tip, and the base fee n; block 0 has no base fee.
ChainTxs(n) == [i \in 1..(n % 3) |-> [gasFeeCap |-> 20, gasTipCap |-> n + 4 - i]]
ChainReceipts(n) == [i \in 1..(n % 3) |-> [gasUsed |-> i]]
ChainBlock(n) ==
    [number |-> n, baseFee |-> IF n = 0 THEN NilBig ELSE Big(n),
     gasUsed |-> SumGas(ChainReceipts(n)), gasLimit |-> 8, txs |-> ChainTxs(n)]

Statuses == {"ok", "missing", "blockErr", "receiptErr"}

\* backend.BlockByNumber: the block, (nil, nil) for a block it does not have, or an error
BlockByNumber(ch, n) ==
    CASE ch[n] = "missing" -> [block |-> <<>>, err |-> NoErr]
      [] ch[n] = "blockErr" -> [block |-> <<>>, err |-> [kind |-> "BlockByNumber", at |-> n]]
      [] OTHER -> [block |-> <<ChainBlock(n)>>, err |-> NoErr]

\* backend.GetReceipts of the block with number n
GetReceipts(ch, n) ==
    IF ch[n] = "receiptErr"
    THEN [receipts |-> <<>>, err |-> [kind |-> "GetReceipts", at |-> n]]
    ELSE [receipts |-> ChainReceipts(n), err |-> NoErr]

\* -------------------------------------------------------------------- cache
\* oracle.historyCache: a least-recently-used cache of CacheSize entries,
\* kept as the sequence of its entries, the most recently used first.
CacheSize == 1

CacheHas(cache, key) == \E i \in 1..Len(cache) : cache[i].key = key
CacheAt(cache, key) == CHOOSE i \in 1..Len(cache) : cache[i].key = key
CacheWithout(cache, key) ==
    LET keep == {i \in 1..Len(cache) : cache[i].key # key}
        pos(i) == Cardinality({j \in keep : j <= i})
    IN  [k \in 1..Cardinality(keep) |-> cache[CHOOSE i \in keep : pos(i) = k]]

\* Cache.Get: the value, and the entry becomes the most recently used
CacheGet(cache, key) ==
    IF CacheHas(cache, key)
    THEN [ok |-> TRUE, value |-> <<cache[CacheAt(cache, key)].value>>,
          cache |-> <<cache[CacheAt(cache, key)]>> \o CacheWithout(cache, key)]
    ELSE [ok |-> FALSE, value |-> <<>>, cache |-> cache]

\* Cache.Add: the entry becomes the most recently used, the least recently used is evicted
CacheAdd(cache, key, value) ==
    LET full == <<[key |-> key, value |-> value]>> \o CacheWithout(cache, key)
    IN  IF Len(full) > CacheSize THEN SubSeq(full, 1, CacheSize) ELSE full

\* --------------------------------------------------------------- FeeHistory
Calls == {1, 2}

Count(f, k) == IF k \in DOMAIN f THEN f[k] ELSE 0
Bump(f, k) == IF k \in DOMAIN f THEN [f EXCEPT ![k] = @ + 1] ELSE f @@ (k :> 1)

EmptyReturn(err) ==
    [oldestBlock |-> Big0, reward |-> <<>>, baseFee |-> <<>>, gasUsedRatio |-> <<>>,
     err |-> err]

NoArgs == [blocks |-> 0, lastBlock |-> 0, percentiles |-> <<>>]
NoRange == [lastBlock |-> 0, oldestBlock |-> 0, blocks |-> 0]
NoAcc == [reward |-> <<>>, baseFee |-> <<>>, gasUsedRatio |-> <<>>, firstMissing |-> 0,
          blocks |-> 0, received |-> 0]
ZeroFees == [reward |-> <<>>, baseFee |-> NilBig, gasUsedRatio |-> <<0, 1>>]
NoFetcher == [pc |-> "unborn", blockNumber |-> 0, sb |-> <<>>,
              fees |-> [blockNumber |-> 0, results |-> ZeroFees, err |-> NoErr],
              exit |-> FALSE]

\* mutant: only the range of each percentile checked, not their order
validateRangeOnly(percentiles) ==
    IF \E i \in 1..Len(percentiles) : percentiles[i] < 0 \/ percentiles[i] > 100
    THEN errInvalidPercentile ELSE NoErr

\* lines 238-245
validatePercentiles(percentiles) ==
    IF \E i \in 1..Len(percentiles) :
          \/ percentiles[i] < 0 \/ percentiles[i] > 100
          \/ i > 1 /\ percentiles[i] < percentiles[i - 1]
    THEN errInvalidPercentile ELSE NoErr

\* mutant: the requested count passed on as it is
sanitizeNone(blocks, maxCall) == blocks

\* lines 234-237
sanitizeBlocks(blocks, maxCall) == IF blocks > maxCall THEN maxCall ELSE blocks

\* mutant: the results kept in the order they arrive
slotByArrival(a, oldestBlock, fees) == a.received

\* line 301
slotIndex(a, oldestBlock, fees) == fees.blockNumber - oldestBlock

\* mutant: the index of the missing block seen last
lastMissing(firstMissing, i) == i

\* lines 306-308
updateFirstMissing(firstMissing, i) == IF i < firstMissing THEN i ELSE firstMissing

\* mutant: what was gathered so far returned with the error
errorReturnPartial(a, r, err) ==
    [oldestBlock |-> r.oldestBlock, reward |-> a.reward, baseFee |-> a.baseFee,
     gasUsedRatio |-> a.gasUsedRatio, err |-> err]

\* line 299
errorReturn(a, r, err) == EmptyReturn(err)

\* mutant: the arrays returned whole
shapeUntruncated(a, r, percentiles) ==
    [oldestBlock |-> r.oldestBlock,
     reward |-> IF Len(percentiles) # 0 THEN a.reward ELSE <<>>,
     baseFee |-> a.baseFee, gasUsedRatio |-> a.gasUsedRatio, err |-> NoErr]

\* lines 311-320
shapeReturn(a, r, percentiles) ==
    IF a.firstMissing = 0 THEN EmptyReturn(NoErr)
    ELSE [oldestBlock |-> r.oldestBlock,
          reward |-> IF Len(percentiles) # 0
                     THEN SubSeq(a.reward, 1, a.firstMissing) ELSE <<>>,
          baseFee |-> SubSeq(a.baseFee, 1, a.firstMissing),
          gasUsedRatio |-> SubSeq(a.gasUsedRatio, 1, a.firstMissing),
          err |-> NoErr]

\* mutant: a channel that holds one result
channelCapOne(blocks) == 1

\* line 254: the capacity of make(chan *blockFees, blocks)
channelCap(blocks) == blocks

\* mutant: an unbuffered channel, which takes a result only while the caller
\* is at its receive
canSendUnbuffered(pc, queue, blocks) == pc = "drain" /\ queue = <<>>

\* lines 273, 279 and 286: a send on the buffered channel proceeds when the
\* channel has room
canSend(pc, queue, blocks) == Len(queue) < channelCap(blocks)

\* mutant: whatever BlockByNumber returned taken for a block
blockAlwaysThere(blk) == FALSE

\* line 271: block == nil || err != nil
blockUnavailable(blk) == blk.block = <<>> \/ blk.err # NoErr

\* mutant: the cursor read and left as it is
cursorKept(n) == n

\* line 260: atomic.AddUint64(&next, 1)
cursorAdd(n) == n + 1

\* mutant: the slimBlock stored under the number after its own
storeUnderNext(cache, blockNumber, sb) == CacheAdd(cache, blockNumber + 1, sb)

\* line 283
storeSlimBlock(cache, blockNumber, sb) == CacheAdd(cache, blockNumber, sb)

OracleIdle ==
    /\ head = 0
    /\ chain = [n \in 0..0 |-> "ok"]
    /\ maxBlockHistory = 1
    /\ maxCallBlockHistory = 1
    /\ historyCache = <<>>
    /\ requests = {}
    /\ callsLeft = 0
    /\ callpc = [c \in Calls |-> "idle"]
    /\ args = [c \in Calls |-> NoArgs]
    /\ range = [c \in Calls |-> NoRange]
    /\ next = [c \in Calls |-> 0]
    /\ results = [c \in Calls |-> <<>>]
    /\ fetcher = [c \in Calls |-> EmptyBag]
    /\ acc = [c \in Calls |-> NoAcc]
    /\ ret = [c \in Calls |-> EmptyReturn(NoErr)]
    /\ ops = [c \in Calls |-> <<>>]

\* lines 231-263: the call up to its first receive.  The goroutines are
\* started here; each runs its first step whenever it is scheduled.
Enter(c, a) ==
    LET blocks1 == sanitizeBlocks(a.blocks, maxCallBlockHistory)
        perr == validatePercentiles(a.percentiles)
        r == resolveBlockRange(head, maxBlockHistory, a.lastBlock, blocks1)
        readsHead == ~(a.lastBlock = PendingBlockNumber /\ blocks1 = 1)
        oldestBlock == r.lastBlock + 1 - r.blocks
    IN  /\ args' = [args EXCEPT ![c] = a]
        /\ IF a.blocks < 1
           THEN /\ ret' = [ret EXCEPT ![c] = EmptyReturn(NoErr)]
                /\ callpc' = [callpc EXCEPT ![c] = "returned"]
                /\ UNCHANGED <<range, next, results, fetcher, acc, ops>>
           ELSE IF perr # NoErr
           THEN /\ ret' = [ret EXCEPT ![c] = EmptyReturn(perr)]
                /\ callpc' = [callpc EXCEPT ![c] = "returned"]
                /\ UNCHANGED <<range, next, results, fetcher, acc, ops>>
           ELSE IF r.err # NoErr \/ r.blocks = 0
           THEN /\ ret' = [ret EXCEPT ![c] = EmptyReturn(r.err)]
                /\ callpc' = [callpc EXCEPT ![c] = "returned"]
                /\ ops' = [ops EXCEPT ![c] =
                             IF readsHead THEN Bump(@, <<"LastAcceptedBlock", 0>>) ELSE @]
                /\ UNCHANGED <<range, next, results, fetcher, acc>>
           ELSE /\ range' = [range EXCEPT ![c] =
                               [lastBlock |-> r.lastBlock, oldestBlock |-> oldestBlock,
                                blocks |-> r.blocks]]
                /\ next' = [next EXCEPT ![c] = oldestBlock]
                /\ results' = [results EXCEPT ![c] = <<>>]
                /\ fetcher' = [fetcher EXCEPT ![c] =
                      [w \in {[NoFetcher EXCEPT !.pc = "claim"]} |->
                         Min(maxBlockFetchers, r.blocks)]]
                /\ acc' = [acc EXCEPT ![c] =
                      [reward |-> [i \in 1..r.blocks |-> <<>>],
                       baseFee |-> [i \in 1..r.blocks |-> NilBig],
                       gasUsedRatio |-> [i \in 1..r.blocks |-> <<0, 1>>],
                       firstMissing |-> r.blocks, blocks |-> r.blocks, received |-> 0]]
                /\ ops' = [ops EXCEPT ![c] = Bump(@, <<"LastAcceptedBlock", 0>>)]
                /\ callpc' = [callpc EXCEPT ![c] = "drain"]
                /\ UNCHANGED ret

\* what a client does: the arguments of its first call and of its second
Script(a, b) == [c \in Calls |-> IF c = 1 THEN a ELSE b]
Repeat(S) == {Script(a, a) : a \in S}

\* a client calls FeeHistory, following one of the scripts
Invoke(c) ==
    /\ callsLeft > 0
    /\ callpc[c] = "idle"
    /\ \E s \in requests :
          /\ \A d \in Calls \ {c} : callpc[d] # "idle" => args[d] = s[d]
          /\ Enter(c, s[c])
    /\ callsLeft' = callsLeft - 1
    /\ UNCHANGED <<probeVars, backendVars, historyCache, requests>>

\* a client that makes its next call once the one before has returned
Call(c) ==
    /\ \A d \in Calls : d < c => callpc[d] = "returned"
    /\ Invoke(c)

\* The goroutines of one call run the same code and have no name: the pool is
\* the bag of their local states.  fees and sb are fresh in every iteration.
Become(pool, w, w2) == (pool (-) SetToBag({w})) (+) SetToBag({w2})

\* lines 260-263
Claim(c, w) ==
    /\ w.pc = "claim"
    /\ next' = [next EXCEPT ![c] = cursorAdd(@)]
    /\ fetcher' = [fetcher EXCEPT ![c] = Become(@, w,
          IF next[c] > range[c].lastBlock
          THEN [NoFetcher EXCEPT !.pc = "exited"]
          ELSE [w EXCEPT !.pc = "get", !.blockNumber = next[c],
                         !.fees = [blockNumber |-> next[c], results |-> ZeroFees,
                                   err |-> NoErr]])]
    /\ UNCHANGED <<probeVars, backendVars, historyCache, requests, callsLeft, callpc, args, range,
                   results, acc, ret, ops>>

\* lines 267-281: the cache is asked; on a miss the block, then its receipts,
\* are read from the backend, which no step changes (GetReceipts only for a
\* block that was returned)
Lookup(c, w) ==
    LET got == CacheGet(historyCache, w.blockNumber)
        blk == BlockByNumber(chain, w.blockNumber)
        noBlock == blockUnavailable(blk)
        rcp == GetReceipts(chain, w.blockNumber)
        ops1 == Bump(ops[c], <<"Get", w.blockNumber>>)
        ops2 == Bump(ops1, <<"BlockByNumber", w.blockNumber>>)
        ops3 == Bump(ops2, <<"GetReceipts", w.blockNumber>>)
    IN  /\ w.pc = "get"
        /\ historyCache' = got.cache
        /\ fetcher' = [fetcher EXCEPT ![c] = Become(@, w,
              IF got.ok THEN [w EXCEPT !.pc = "send", !.sb = got.value]
              ELSE IF noBlock
              THEN [w EXCEPT !.pc = "send", !.exit = TRUE, !.fees.err = blk.err]
              ELSE IF rcp.err # NoErr
              THEN [w EXCEPT !.pc = "send", !.exit = TRUE, !.fees.err = rcp.err]
              ELSE [w EXCEPT !.pc = "add"])]
        /\ ops' = [ops EXCEPT ![c] =
              IF got.ok THEN ops1 ELSE IF noBlock THEN ops2 ELSE ops3]
        /\ UNCHANGED <<probeVars, backendVars, requests, callsLeft, callpc, args, range, next,
                       results, acc, ret>>

\* lines 282-283
Store(c, w) ==
    LET sb == processBlock(ChainBlock(w.blockNumber), ChainReceipts(w.blockNumber))
    IN  /\ w.pc = "add"
        /\ historyCache' = storeSlimBlock(historyCache, w.blockNumber, sb)
        /\ fetcher' = [fetcher EXCEPT ![c] =
              Become(@, w, [w EXCEPT !.pc = "send", !.sb = <<sb>>])]
        /\ ops' = [ops EXCEPT ![c] = Bump(@, <<"Add", w.blockNumber>>)]
        /\ UNCHANGED <<probeVars, backendVars, requests, callsLeft, callpc, args, range, next,
                       results, acc, ret>>

\* lines 273, 279 and 285-286: the send on the channel, which holds range.blocks
\* results; a goroutine that recorded a missing block or an error then returns
Send(c, w) ==
    LET fees == IF w.exit THEN w.fees
                ELSE [w.fees EXCEPT
                        !.results = processPercentiles(w.sb[1], args[c].percentiles)]
    IN  /\ w.pc = "send"
        /\ canSend(callpc[c], results[c], range[c].blocks)
        /\ results' = [results EXCEPT ![c] = Append(@, fees)]
        /\ fetcher' = [fetcher EXCEPT ![c] = Become(@, w,
              IF w.exit THEN [NoFetcher EXCEPT !.pc = "exited"]
              ELSE [NoFetcher EXCEPT !.pc = "claim"])]
        /\ ops' = [ops EXCEPT ![c] = Bump(@, <<"send", w.blockNumber>>)]
        /\ UNCHANGED <<probeVars, backendVars, historyCache, requests, callsLeft, callpc, args,
                       range, next, acc, ret>>

\* lines 296-321: one receive, and after the last one the return
Receive(c) ==
    LET fees == Head(results[c])
        a == acc[c]
        i == slotIndex(a, range[c].oldestBlock, fees)
        a1 == IF fees.results.baseFee # NilBig
              THEN [a EXCEPT !.reward[i + 1] = fees.results.reward,
                             !.baseFee[i + 1] = fees.results.baseFee,
                             !.gasUsedRatio[i + 1] = fees.results.gasUsedRatio]
              ELSE [a EXCEPT !.firstMissing = updateFirstMissing(@, i)]
        a2 == [a1 EXCEPT !.blocks = @ - 1, !.received = @ + 1]
    IN  /\ callpc[c] = "drain"
        /\ results[c] # <<>>
        /\ results' = [results EXCEPT ![c] = Tail(@)]
        /\ IF fees.err # NoErr
           THEN /\ ret' = [ret EXCEPT ![c] = errorReturn(a, range[c], fees.err)]
                /\ callpc' = [callpc EXCEPT ![c] = "returned"]
                /\ UNCHANGED acc
           ELSE /\ acc' = [acc EXCEPT ![c] = a2]
                /\ IF a2.blocks > 0
                   THEN UNCHANGED <<ret, callpc>>
                   ELSE /\ ret' = [ret EXCEPT ![c] =
                                     shapeReturn(a2, range[c], args[c].percentiles)]
                        /\ callpc' = [callpc EXCEPT ![c] = "returned"]
        /\ ops' = [ops EXCEPT ![c] =
              IF fees.err = NoErr /\ \E j \in i + 2..Len(a.baseFee) : a.baseFee[j] # NilBig
              THEN Bump(@, <<"overtaken", fees.blockNumber>>) ELSE @]
        /\ UNCHANGED <<probeVars, backendVars, historyCache, requests, callsLeft, args, range,
                       next, fetcher>>

Next ==
    \/ \E c \in Calls : Call(c)
    \/ \E c \in Calls : Receive(c)
    \/ \E c \in Calls : \E w \in BagToSet(fetcher[c]) : Claim(c, w)
    \/ \E c \in Calls : \E w \in BagToSet(fetcher[c]) : Lookup(c, w)
    \/ \E c \in Calls : \E w \in BagToSet(fetcher[c]) : Store(c, w)
    \/ \E c \in Calls : \E w \in BagToSet(fetcher[c]) : Send(c, w)

\* the cache before the first call: entries an earlier call left
Warm(keys) == [k \in 1..Len(keys) |->
                 [key |-> keys[k],
                  value |-> processBlock(ChainBlock(keys[k]), ChainReceipts(keys[k]))]]

\* every request with up to maxCall + 1 blocks that ends at a selector or at a
\* number up to h + 1, with no percentiles, two valid ones, or invalid ones
AllRequests(h, maxCall) ==
    [blocks : 0..maxCall + 1,
     lastBlock : {PendingBlockNumber, LatestBlockNumber} \cup (0..h + 1),
     percentiles : {<<>>, <<0, 100>>, <<101>>, <<100, 0>>}]

\* the oracle at rest over a backend with blocks 0..h, the client about to
\* make `calls` calls
Start(h, calls) ==
    /\ rsv = RsvIdle
    /\ pct = PctIdle
    /\ head = h
    /\ callsLeft = calls
    /\ callpc = [c \in Calls |-> "idle"]
    /\ args = [c \in Calls |-> NoArgs]
    /\ range = [c \in Calls |-> NoRange]
    /\ next = [c \in Calls |-> 0]
    /\ results = [c \in Calls |-> <<>>]
    /\ fetcher = [c \in Calls |-> EmptyBag]
    /\ acc = [c \in Calls |-> NoAcc]
    /\ ret = [c \in Calls |-> EmptyReturn(NoErr)]
    /\ ops = [c \in Calls |-> <<>>]

\* One call over a chain of ChainHead + 1 blocks, each block answered in any of
\* the four ways; the history window shorter than the chain or as long.
ChainHead == 2

Init ==
    /\ Start(ChainHead, 1)
    /\ chain \in [0..ChainHead -> Statuses]
    /\ maxBlockHistory \in {ChainHead, ChainHead + 1}
    /\ maxCallBlockHistory = ChainHead + 1
    /\ requests = Repeat(AllRequests(ChainHead, ChainHead + 1))
    /\ historyCache \in {Warm(<<>>)} \cup {Warm(<<1>>) : x \in {y \in {1} : chain[y] = "ok"}}

Spec == Init /\ [][Next]_vars

\* a step of a goroutine of some call
Fetch ==
    \E c \in Calls : \E w \in BagToSet(fetcher[c]) :
        Claim(c, w) \/ Lookup(c, w) \/ Store(c, w) \/ Send(c, w)

\* One call for the newest blocks of the same chain under fair scheduling of
\* the goroutines: the Go scheduler runs a goroutine that can take a step, and
\* the calls on the backend return.
InitFair ==
    /\ Start(ChainHead, 1)
    /\ chain \in [0..ChainHead -> Statuses]
    /\ maxBlockHistory = ChainHead + 1
    /\ maxCallBlockHistory = ChainHead + 1
    /\ requests = Repeat([blocks : 1..ChainHead + 1, lastBlock : {LatestBlockNumber},
                          percentiles : {<<0, 100>>}])
    /\ historyCache = <<>>

FairSpec == InitFair /\ [][Next]_vars /\ WF_vars(Fetch)

\* Two calls in sequence over a chain of TwiceHead + 1 blocks.
TwiceHead == 1

InitTwice ==
    /\ Start(TwiceHead, 2)
    /\ chain \in [0..TwiceHead -> Statuses]
    /\ maxBlockHistory = TwiceHead + 1
    /\ maxCallBlockHistory = TwiceHead + 1
    /\ requests = Repeat(AllRequests(TwiceHead, TwiceHead + 1))
    /\ historyCache \in {Warm(<<>>)} \cup {Warm(<<1>>) : x \in {y \in {1} : chain[y] = "ok"}}

TwiceSpec == InitTwice /\ [][Next]_vars

\* One call over a chain with one block more than there are fetchers, on a
\* node that has the blocks from some height on only.
DeepHead == maxBlockFetchers

InitDeep ==
    /\ Start(DeepHead, 1)
    /\ \E k \in 0..DeepHead + 1 :
          chain = [n \in 0..DeepHead |-> IF n < k THEN "missing" ELSE "ok"]
    /\ maxBlockHistory = DeepHead + 1
    /\ maxCallBlockHistory = DeepHead + 1
    /\ requests = Repeat({[blocks |-> DeepHead + 1, lastBlock |-> LatestBlockNumber,
                            percentiles |-> <<0, 100>>]})
    /\ historyCache = <<>>

DeepSpec == InitDeep /\ [][Next]_vars

\* Two calls in sequence over a chain of PairHead + 1 blocks: one that ends at
\* the pending block, then the one for a block fewer that ends at the latest.
PairHead == 2

PendingPairs(maxCall) ==
    {Script([blocks |-> n, lastBlock |-> PendingBlockNumber, percentiles |-> ps],
            [blocks |-> n - 1, lastBlock |-> LatestBlockNumber, percentiles |-> ps]) :
        n \in 1..maxCall, ps \in {<<>>, <<0, 100>>, <<100, 0>>}}

InitPending ==
    /\ Start(PairHead, 2)
    /\ chain \in [0..PairHead -> Statuses]
    /\ maxBlockHistory = PairHead + 1
    /\ maxCallBlockHistory = PairHead + 1
    /\ requests = PendingPairs(PairHead + 1)
    /\ historyCache = <<>>

PendingSpec == InitPending /\ [][Next]_vars

\* Two calls in sequence by an oracle whose maxCallBlockHistory is below the
\* length of the chain and of the history window: one for more blocks than
\* maxCallBlockHistory, then the one for maxCallBlockHistory blocks.
ClampPairs(h, maxCall) ==
    {Script([blocks |-> n, lastBlock |-> l, percentiles |-> ps],
            [blocks |-> maxCall, lastBlock |-> l, percentiles |-> ps]) :
        n \in maxCall + 1..maxCall + 2,
        l \in {PendingBlockNumber, LatestBlockNumber, h, h - 1},
        ps \in {<<>>, <<0, 100>>}}

InitClamp ==
    /\ Start(PairHead, 2)
    /\ chain \in [0..PairHead -> Statuses]
    /\ maxBlockHistory = PairHead + 1
    /\ maxCallBlockHistory = PairHead
    /\ requests = ClampPairs(PairHead, PairHead)
    /\ historyCache = <<>>

ClampSpec == InitClamp /\ [][Next]_vars

\* Two clients that call at any time, also while the other call is running,
\* for the two blocks of a chain of TwiceHead + 1 blocks.
NextConcurrent ==
    \/ \E c \in Calls : Invoke(c)
    \/ \E c \in Calls : Receive(c)
    \/ Fetch

InitConcurrent ==
    /\ Start(TwiceHead, 2)
    /\ chain \in [0..TwiceHead -> Statuses]
    /\ maxBlockHistory = TwiceHead + 1
    /\ maxCallBlockHistory = TwiceHead + 1
    /\ requests = Repeat([blocks : {TwiceHead + 1}, lastBlock : {LatestBlockNumber},
                          percentiles : {<<0, 100>>}])
    /\ historyCache \in {Warm(<<>>)} \cup {Warm(<<1>>) : x \in {y \in {1} : chain[y] = "ok"}}

ConcurrentSpec == InitConcurrent /\ [][NextConcurrent]_vars

\* ------------------------------------------- resolveBlockRange on its inputs
\* FeeHistory calls resolveBlockRange with 1 <= blocks <= maxCallBlockHistory;
\* NewOracle keeps maxBlockHistory >= 1.
Selectors == {PendingBlockNumber, LatestBlockNumber, AcceptedBlockNumber}

InitResolve ==
    /\ \E h \in 0..MaxHead, m \in 1..MaxHistory,
          l \in Selectors \cup (0..MaxHead + 1), b \in 1..MaxCount :
          rsv = [RsvIdle EXCEPT !.pc = "call", !.head = h, !.maxBlockHistory = m,
                                !.lastBlock = l, !.blocks = b]
    /\ pct = PctIdle
    /\ OracleIdle

Resolve ==
    /\ rsv.pc = "call"
    /\ rsv' = [rsv EXCEPT !.pc = "done",
                 !.out = resolveBlockRange(rsv.head, rsv.maxBlockHistory,
                                           rsv.lastBlock, rsv.blocks)]
    /\ UNCHANGED <<pct, oracleVars>>

NextResolve == Resolve

ResolveSpec == InitResolve /\ [][NextResolve]_vars

\* --------------------------------- processBlock, processPercentiles on inputs
TxKinds == {[gasFeeCap |-> 10, gasTipCap |-> 1],
            [gasFeeCap |-> 10, gasTipCap |-> 3],
            [gasFeeCap |-> 4, gasTipCap |-> 5]}
GasKinds == {1, 3}
BaseFeeKinds == {NilBig, Big(2)}
PercentileKinds == {0, 30, 50, 100}

SeqsUpTo(S, n) == UNION {[1..k -> S] : k \in 0..n}

\* what FeeHistory lets through: every value in [0,100], none below the one before
ValidPercentiles(ps) ==
    /\ \A i \in 1..Len(ps) : ps[i] >= 0 /\ ps[i] <= 100
    /\ \A i \in 2..Len(ps) : ps[i] >= ps[i - 1]

\* an accepted block: its gasUsed is the sum of its receipts' gas, within its limit
InitPercentiles ==
    /\ rsv = RsvIdle
    /\ OracleIdle
    /\ \E txs \in SeqsUpTo(TxKinds, MaxTxs), bf \in BaseFeeKinds,
          ps \in {q \in SeqsUpTo(PercentileKinds, 2) : ValidPercentiles(q)} :
        \E gas \in [1..Len(txs) -> GasKinds], slack \in {0, 5} :
          LET receipts == [i \in 1..Len(txs) |-> [gasUsed |-> gas[i]]]
              used == SumGas(receipts)
          IN  pct = [PctIdle EXCEPT !.pc = "extract",
                       !.block = [baseFee |-> bf, gasUsed |-> used,
                                  gasLimit |-> Max(used, 1) + slack, txs |-> txs],
                       !.receipts = receipts, !.percentiles = ps]

Extract ==
    /\ pct.pc = "extract"
    /\ \E sb \in processBlockOutcomes(pct.block, pct.receipts) :
          pct' = [pct EXCEPT !.pc = "percentiles", !.sb = sb]
    /\ UNCHANGED <<rsv, oracleVars>>

Percentiles ==
    /\ pct.pc = "percentiles"
    /\ pct' = [pct EXCEPT !.pc = "done",
                 !.out = processPercentiles(pct.sb, pct.percentiles)]
    /\ UNCHANGED <<rsv, oracleVars>>

NextPercentiles == Extract \/ Percentiles

PercentileSpec == InitPercentiles /\ [][NextPercentiles]_vars

\* ================================================================== claims
Returned(c) == callpc[c] = "returned"
\* the call resolved a range of at least one block and started its goroutines
Ranged(c) == range[c].blocks > 0
Window(c) == range[c].oldestBlock..range[c].lastBlock
Asked(c, op, n) == Count(ops[c], <<op, n>>) > 0
Live(c) == {w \in BagToSet(fetcher[c]) : w.pc # "exited"}

\* what the backend holds for block n, as FeeHistory should report it
Expected(c, n) ==
    processPercentiles(processBlock(ChainBlock(n), ChainReceipts(n)), args[c].percentiles)

\* C1: every FeeHistory call returns: while the caller waits at the receive of
\* line 297 there is a result in the channel or a goroutine that can still
\* send one, whichever blocks of the range the backend reports missing.
C1_CallerNeverStranded ==
    \A c \in Calls : callpc[c] = "drain" => results[c] # <<>> \/ Live(c) # {}

\* the indices of the range whose block the backend reported missing in call c
MissingIndices(c) ==
    {n - range[c].oldestBlock : n \in
        {m \in Window(c) : Asked(c, "BlockByNumber", m) /\ chain[m] = "missing"}}
FirstMissingOf(c) ==
    IF MissingIndices(c) = {} THEN range[c].blocks
    ELSE CHOOSE i \in MissingIndices(c) : \A j \in MissingIndices(c) : i <= j

C3_EntriesInBlockOrder ==
    \A c \in Calls : Returned(c) /\ Ranged(c) /\ ret[c].err = NoErr =>
        /\ Len(ret[c].baseFee) > 0 => ret[c].oldestBlock = range[c].oldestBlock
        /\ \A i \in 1..Len(ret[c].baseFee) :
              ret[c].baseFee[i] = Expected(c, range[c].oldestBlock + i - 1).baseFee
        /\ \A i \in 1..Len(ret[c].gasUsedRatio) :
              ret[c].gasUsedRatio[i]
                 = Expected(c, range[c].oldestBlock + i - 1).gasUsedRatio
        /\ \A i \in 1..Len(ret[c].reward) :
              ret[c].reward[i] = Expected(c, range[c].oldestBlock + i - 1).reward

\* a call returned three blocks with rewards after the result of a block had
\* reached the caller later than the result of a block above it
C3_Witness ==
    \E c \in Calls :
        /\ Returned(c) /\ ret[c].err = NoErr
        /\ Len(ret[c].baseFee) = 3 /\ Len(ret[c].reward) = 3
        /\ Asked(c, "overtaken", range[c].oldestBlock)

\* C4: for a count of at least one after the pending adjustment, a range
\* resolved without error has 1 <= blockCount <= lastBlock + 1, so its oldest
\* block is not below genesis.
C4_ResolvedCountFetchable ==
    rsv.pc = "done" /\ rsv.out.err = NoErr
        /\ ~(rsv.lastBlock = PendingBlockNumber /\ rsv.blocks = 1) =>
            /\ rsv.out.blocks >= 1
            /\ rsv.out.blocks <= rsv.out.lastBlock + 1
            /\ rsv.out.lastBlock - rsv.out.blocks + 1 >= 0

\* a range cut at genesis: more blocks were asked for than lie below lastBlock
C4_Witness ==
    /\ rsv.pc = "done" /\ rsv.out.err = NoErr
    /\ rsv.out.blocks = rsv.out.lastBlock + 1
    /\ rsv.out.blocks < rsv.blocks
    /\ rsv.out.lastBlock > 0

\* C5: every block number a call looks up in the cache or asks the backend for
\* lies in [max(0, head - (maxBlockHistory - 1)), head].
C5_LookupsWithinHistory ==
    \A c \in Calls : \A k \in DOMAIN ops[c] :
        k[1] \in {"Get", "BlockByNumber", "GetReceipts"} =>
            /\ k[2] >= Max(0, head - (maxBlockHistory - 1))
            /\ k[2] <= head

\* a call that asked for more blocks than the history window holds looked up
\* the oldest block of the window, which is above genesis
C5_Witness ==
    \E c \in Calls :
        /\ head - (maxBlockHistory - 1) > 0
        /\ args[c].blocks > maxBlockHistory
        /\ Asked(c, "Get", head - (maxBlockHistory - 1))
        /\ Asked(c, "BlockByNumber", head)

C7_InvalidPercentileAlways ==
    \A c \in Calls : Returned(c) /\ ~ValidPercentiles(args[c].percentiles) =>
        /\ ret[c].err = errInvalidPercentile
        /\ ops[c] = <<>>

\* C7 amended: the same for every call that asks for at least one block.
C7_InvalidPercentileFromOneBlock ==
    \A c \in Calls :
        Returned(c) /\ args[c].blocks >= 1 /\ ~ValidPercentiles(args[c].percentiles) =>
            /\ ret[c].err = errInvalidPercentile
            /\ ops[c] = <<>>

\* a call for three blocks with percentiles out of order was refused
C7_Witness ==
    \E c \in Calls :
        /\ Returned(c) /\ args[c].blocks = 3 /\ args[c].percentiles = <<100, 0>>
        /\ ret[c] = EmptyReturn(errInvalidPercentile)

SameData(r1, r2) ==
    /\ r1.oldestBlock = r2.oldestBlock
    /\ r1.reward = r2.reward
    /\ r1.baseFee = r2.baseFee
    /\ r1.gasUsedRatio = r2.gasUsedRatio

\* C8 as stated: two calls in sequence with the same arguments over the same
\* backend return the same oldestBlock, rewards, baseFees, gasUsedRatios and
\* error, whatever the cache held and however the goroutines interleave.
C8_SecondCallIdentical ==
    Returned(1) /\ Returned(2) => ret[1] = ret[2]

\* C8 amended: they return the same oldestBlock, rewards, baseFees and
\* gasUsedRatios, and both fail or both succeed; the error returned may be that
\* of another failing block of the range.
C8_SecondCallSameData ==
    Returned(1) /\ Returned(2) =>
        /\ SameData(ret[1], ret[2])
        /\ (ret[1].err = NoErr) = (ret[2].err = NoErr)

\* both calls returned two blocks, the second one after a hit in the cache
C8_Witness ==
    /\ Returned(1) /\ Returned(2)
    /\ ret[2].err = NoErr /\ Len(ret[2].baseFee) = 2
    /\ \E n \in Window(2) : Asked(2, "Get", n) /\ ~Asked(2, "BlockByNumber", n)

BackendErrors ==
    {[kind |-> k, at |-> n] : k \in {"BlockByNumber", "GetReceipts"}, n \in 0..head}

\* C9: a call that returns an error returns oldestBlock 0 and no arrays, also
\* after other blocks were processed; a backend error it returns is the error
\* the backend gave for a block of the range whose result a goroutine sent.
C9_ErrorWithoutData ==
    \A c \in Calls : Returned(c) /\ ret[c].err # NoErr =>
        /\ ret[c] = EmptyReturn(ret[c].err)
        /\ \/ ret[c].err \in {errInvalidPercentile, errRequestBeyondHead,
                              errBeyondHistoricalLimit}
           \/ /\ ret[c].err \in BackendErrors
              /\ ret[c].err.at \in Window(c)
              /\ Asked(c, "send", ret[c].err.at)
              /\ ret[c].err \in {BlockByNumber(chain, ret[c].err.at).err,
                                 GetReceipts(chain, ret[c].err.at).err}

\* a call returned a backend error after it had stored the data of another block
C9_Witness ==
    \E c \in Calls :
        /\ Returned(c) /\ ret[c].err \in BackendErrors
        /\ \E i \in 1..Len(acc[c].baseFee) : acc[c].baseFee[i] # NilBig

PrefixGas(txs, k) == SumGas(SubSeq(txs, 1, k))

\* the first position of txs whose cumulative gas is not below threshold, or the last
PositionFor(txs, threshold) ==
    LET reach == {k \in 1..Len(txs) : PrefixGas(txs, k) >= threshold}
    IN  IF reach = {} THEN Len(txs)
        ELSE CHOOSE k \in reach : \A j \in reach : k <= j

\* the rewards at the positions where the cumulative gas reaches gas * p / 100
RewardsBy(sb, percentiles, gas) ==
    [i \in 1..Len(percentiles) |->
        Big(sb.Txs[PositionFor(sb.Txs, (gas * percentiles[i]) \div 100)].reward)]

\* C10 as stated: for a block with transactions, each percentile p yields the
\* reward at the first position of the sorted list where the cumulative gas is
\* not below gasLimit * p / 100, or the last one.
C10_ThresholdFromGasLimit ==
    pct.pc = "done" /\ Len(pct.sb.Txs) > 0 /\ Len(pct.percentiles) > 0 =>
        pct.out.reward = RewardsBy(pct.sb, pct.percentiles, pct.sb.GasLimit)

\* C10 amended: the threshold is gasUsed * p / 100, of the gas the block used.
C10_ThresholdFromGasUsed ==
    pct.pc = "done" /\ Len(pct.sb.Txs) > 0 /\ Len(pct.percentiles) > 0 =>
        pct.out.reward = RewardsBy(pct.sb, pct.percentiles, pct.sb.GasUsed)

\* a block of three transactions that is not full, two percentiles, and rewards
\* that differ from the ones a threshold on the gas limit gives
C10_Witness ==
    /\ pct.pc = "done" /\ Len(pct.sb.Txs) = 3 /\ Len(pct.percentiles) = 2
    /\ pct.sb.GasLimit > pct.sb.GasUsed
    /\ pct.out.reward # RewardsBy(pct.sb, pct.percentiles, pct.sb.GasLimit)
    /\ pct.out.reward[1] # pct.out.reward[2]

\* the rewards of the transactions of the block the percentile probe was given
BlockRewards == {sorterOf(pct.block, pct.receipts)[i].reward : i \in 1..Len(pct.block.txs)}
SmallestReward == CHOOSE r \in BlockRewards : \A q \in BlockRewards : r <= q
LargestReward == CHOOSE r \in BlockRewards : \A q \in BlockRewards : r >= q

\* C11: for a block with at least one transaction, the single percentile 0
\* yields the smallest reward of its transactions and the single percentile 100
\* the largest.
C11_ExtremePercentiles ==
    pct.pc = "done" /\ Len(pct.block.txs) > 0 =>
        /\ pct.percentiles = <<0>> => pct.out.reward = <<Big(SmallestReward)>>
        /\ pct.percentiles = <<100>> => pct.out.reward = <<Big(LargestReward)>>

\* percentile 100 of a block of three transactions whose first transaction pays
\* the largest reward and whose last does not
C11_Witness ==
    /\ pct.pc = "done" /\ Len(pct.block.txs) = 3 /\ pct.percentiles = <<100>>
    /\ sorterOf(pct.block, pct.receipts)[1].reward = LargestReward
    /\ sorterOf(pct.block, pct.receipts)[3].reward < LargestReward
    /\ pct.out.reward = <<Big(LargestReward)>>

\* the call returned data: no error and at least one block
Succeeded(c) == Returned(c) /\ ret[c].err = NoErr /\ Len(ret[c].baseFee) > 0

C13_PendingAsLatest ==
    Returned(1) /\ Returned(2) =>
        /\ ret[1] = ret[2]
        /\ args[1].blocks = 1 => ret[1] = EmptyReturn(NoErr) /\ ops[1] = <<>>

\* C13 amended: the same for percentiles that are valid, and for n >= 2 also
\* for invalid ones; when the two calls fail on the backend, each returns the
\* error of a failing block of the range, not always of the same block.
C13_PendingAsLatestValid ==
    Returned(1) /\ Returned(2)
        /\ (args[1].blocks >= 2 \/ ValidPercentiles(args[1].percentiles)) =>
            /\ SameData(ret[1], ret[2])
            /\ range[1] = range[2]
            /\ \/ ret[1].err = ret[2].err
               \/ ret[1].err \in BackendErrors /\ ret[2].err \in BackendErrors
            /\ args[1].blocks = 1 => ret[1] = EmptyReturn(NoErr) /\ ops[1] = <<>>

\* the call for three blocks up to the pending one and the call for two blocks
\* up to the latest one both returned blocks 1 and 2
C13_Witness ==
    /\ Returned(1) /\ Returned(2)
    /\ args[1].blocks = 3 /\ args[1].lastBlock = PendingBlockNumber
    /\ args[2].blocks = 2 /\ args[2].lastBlock = LatestBlockNumber
    /\ Succeeded(1) /\ ret[1].oldestBlock = 1 /\ Len(ret[1].baseFee) = 2
    /\ ret[2] = ret[1]

\* the block numbers call c has looked up so far
Processed(c) == {n \in 0..head : Asked(c, "Get", n)}

\* no call returns or processes more than maxCallBlockHistory blocks
WithinCallLimit ==
    \A c \in Calls :
        /\ Len(ret[c].baseFee) <= maxCallBlockHistory
        /\ Len(ret[c].gasUsedRatio) <= maxCallBlockHistory
        /\ Len(ret[c].reward) <= maxCallBlockHistory
        /\ Cardinality(Processed(c)) <= maxCallBlockHistory

\* C14 as stated: for n > maxCallBlockHistory, FeeHistory(n, last, P) returns
\* exactly what FeeHistory(maxCallBlockHistory, last, P) returns, and no call
\* returns more than maxCallBlockHistory entries in an array or processes more
\* than maxCallBlockHistory blocks.
C14_ClampedExactly ==
    /\ WithinCallLimit
    /\ Returned(1) /\ Returned(2) => ret[1] = ret[2]

\* C14 amended: the two calls resolve the same range and return the same
\* oldestBlock, rewards, baseFees and gasUsedRatios; they return the same error
\* or, when blocks of the range fail on the backend, each the error of one of
\* them.  The limit on entries and processed blocks holds as stated.
C14_ClampedSameData ==
    /\ WithinCallLimit
    /\ Returned(1) /\ Returned(2) =>
        /\ SameData(ret[1], ret[2])
        /\ range[1] = range[2]
        /\ \/ ret[1].err = ret[2].err
           \/ ret[1].err \in BackendErrors /\ ret[2].err \in BackendErrors

\* a call for two blocks more than maxCallBlockHistory returned
\* maxCallBlockHistory blocks of a longer chain, as the call for
\* maxCallBlockHistory blocks did
C14_Witness ==
    /\ Returned(1) /\ Returned(2)
    /\ args[1].blocks = maxCallBlockHistory + 2
    /\ args[2].blocks = maxCallBlockHistory
    /\ head + 1 > maxCallBlockHistory /\ maxBlockHistory > maxCallBlockHistory
    /\ Succeeded(1) /\ Len(ret[1].baseFee) = maxCallBlockHistory
    /\ Cardinality(Processed(1)) = maxCallBlockHistory
    /\ ret[2] = ret[1]

\* C15: the baseFee array of a successful non-empty return holds the base fees
\* of the returned blocks and, after them, the base fee of the block that
\* follows the newest of them: one entry more than gasUsedRatio.
C15_BaseFeeOfNextBlock ==
    \A c \in Calls : Succeeded(c) =>
        /\ Len(ret[c].baseFee) = Len(ret[c].gasUsedRatio) + 1
        /\ \A i \in 1..Len(ret[c].gasUsedRatio) :
              ret[c].baseFee[i] = Expected(c, ret[c].oldestBlock + i - 1).baseFee

\* how many results the goroutines of call c have sent so far
RECURSIVE SentUpTo(_, _)
SentUpTo(c, n) ==
    IF n < 0 THEN 0 ELSE Count(ops[c], <<"send", n>>) + SentUpTo(c, n - 1)
Sent(c) == SentUpTo(c, head)

\* C16: in every state of a call the results sent so far are at most
\* blockCount, the capacity of the channel, and a goroutine that is about to
\* send finds room in the channel, also when the caller has returned.
C16_SendNeverBlocks ==
    \A c \in Calls :
        /\ Sent(c) <= range[c].blocks
        /\ Len(results[c]) <= channelCap(range[c].blocks)
        /\ \A w \in BagToSet(fetcher[c]) :
              w.pc = "send" => Len(results[c]) < channelCap(range[c].blocks)

\* the caller returned on the error of one block, and by now all three results
\* of the range were sent; two of them stay in the channel
C16_Witness ==
    \E c \in Calls :
        /\ Returned(c) /\ ret[c].err \in BackendErrors
        /\ range[c].blocks = 3 /\ Sent(c) = 3
        /\ Len(results[c]) = 2

\* C17: once the caller has returned on the error of one goroutine, the other
\* goroutines of the call run on: under fair scheduling every one of them
\* finishes its block, claims further blocks if there are any and exits.
C17_SiblingsTerminate ==
    \A c \in Calls :
        (Returned(c) /\ ret[c].err \in BackendErrors) ~> (Live(c) = {})

\* the caller has returned on an error while a goroutine is between the
\* backend and the cache with its block and another block is still unclaimed
C17_Witness ==
    \E c \in Calls :
        /\ Returned(c) /\ ret[c].err \in BackendErrors
        /\ \E w \in Live(c) : w.pc = "add"
        /\ next[c] <= range[c].lastBlock

\* the Extractor's output for block n of the backend
Extracted(n) == processBlock(ChainBlock(n), ChainReceipts(n))

\* every entry of the cache is the Extractor's output for a block the backend
\* returns with its receipts, under the number of that block
CacheEntriesExtracted ==
    \A i \in 1..Len(historyCache) :
        /\ historyCache[i].key \in 0..head
        /\ chain[historyCache[i].key] = "ok"
        /\ historyCache[i].value = Extracted(historyCache[i].key)

Grew(c, op, n) == Count(ops'[c], <<op, n>>) > Count(ops[c], <<op, n>>)

\* a lookup that finds block n in the cache asks the backend nothing about it,
\* and one that does not find it asks the backend for the block
HitSkipsBackend ==
    \A c \in Calls : \A n \in 0..head : Grew(c, "Get", n) =>
        IF CacheHas(historyCache, n)
        THEN ~Grew(c, "BlockByNumber", n) /\ ~Grew(c, "GetReceipts", n)
        ELSE Grew(c, "BlockByNumber", n)

\* an insertion under n puts the Extractor's output for block n in the cache
AddsExtract ==
    \A c \in Calls : \A n \in 0..head : Grew(c, "Add", n) =>
        /\ chain[n] = "ok"
        /\ CacheHas(historyCache', n)
        /\ historyCache'[CacheAt(historyCache', n)].value = Extracted(n)

\* C18: under every interleaving of goroutines and of concurrent calls over an
\* unchanged backend, each cache entry under n is the Extractor's output for
\* block n and its receipts; a block that is missing or whose lookups failed is
\* never inserted, a hit asks the backend nothing about that block, and two
\* insertions under one key insert the same value.
C18_CacheFaithful ==
    /\ []CacheEntriesExtracted
    /\ [][HitSkipsBackend /\ AddsExtract]_vars

\* while both calls are running each has inserted block 0, and one of them
\* has found block 1 in the cache
C18_Witness ==
    /\ callpc[1] = "drain" /\ callpc[2] = "drain"
    /\ Asked(1, "Add", 0) /\ Asked(2, "Add", 0)
    /\ \E c \in Calls : Asked(c, "Get", 1) /\ ~Asked(c, "BlockByNumber", 1)

\* the goroutines of call c that hold a block number they claimed
Holding(c) == {w \in BagToSet(fetcher[c]) : w.pc \in {"get", "add", "send"}}

\* C19: a call starts at most min(maxBlockFetchers, blockCount) goroutines;
\* every number of [oldestBlock, lastBlock] is claimed by at most one of them
\* and none works on a number outside it, so per call the cache and the
\* backend are asked at most once for a block and at most one result is sent
\* for it.
C19_EachBlockClaimedOnce ==
    \A c \in Calls :
        /\ BagCardinality(fetcher[c]) <= Min(maxBlockFetchers, range[c].blocks)
        /\ \A w \in Holding(c) :
              /\ w.blockNumber \in Window(c)
              /\ CopiesIn(w, fetcher[c]) = 1
              /\ \A v \in Holding(c) : v.blockNumber = w.blockNumber => v = w
        /\ \A k \in DOMAIN ops[c] :
              k[1] \in {"Get", "BlockByNumber", "GetReceipts", "Add", "send"} =>
                  k[2] \in Window(c) /\ ops[c][k] <= 1

\* a call for five blocks ran four goroutines, which asked the backend once for
\* each of the five blocks and sent one result for each
C19_Witness ==
    \E c \in Calls :
        /\ range[c].blocks = maxBlockFetchers + 1
        /\ BagCardinality(fetcher[c]) = maxBlockFetchers
        /\ \A n \in Window(c) :
              Count(ops[c], <<"BlockByNumber", n>>) = 1 /\ Count(ops[c], <<"send", n>>) = 1

\* C20: for every block and every non-decreasing sequence of percentiles the
\* rewards processPercentiles returns are non-decreasing in the same order,
\* and for a block with transactions each of them is the reward of one of its
\* transactions.
C20_RewardsMonotone ==
    pct.pc = "done" /\ ValidPercentiles(pct.percentiles) =>
        /\ Len(pct.out.reward) = Len(pct.percentiles)
        /\ \A i \in 2..Len(pct.out.reward) :
              pct.out.reward[i - 1][1] <= pct.out.reward[i][1]
        /\ Len(pct.block.txs) > 0 =>
              \A i \in 1..Len(pct.out.reward) : pct.out.reward[i][1] \in BlockRewards

\* two percentiles of a block of three transactions, listed by descending
\* reward, that yield two different rewards
C20_Witness ==
    /\ pct.pc = "done" /\ Len(pct.block.txs) = 3 /\ Len(pct.percentiles) = 2
    /\ \A i \in 1..2 : sorterOf(pct.block, pct.receipts)[i].reward
                          > sorterOf(pct.block, pct.receipts)[i + 1].reward
    /\ pct.out.reward[1][1] < pct.out.reward[2][1]

====
